---- MODULE Spec2Model ----
(***************************************************************************)
(* The GraphQL gateway of src/index.js over the Star Wars REST API.        *)
(*                                                                         *)
(* The state is the upstream dataset and, for every query the server has   *)
(* work in progress for, the position of its root resolver, the            *)
(* fetchResource(s) calls it started with their axios requests in flight,  *)
(* and its response.  A step is the arrival of a query or of one upstream  *)
(* response, together with everything the event loop runs in that turn.    *)
(***************************************************************************)
EXTENDS Integers, Sequences, FiniteSets, TLC

\* Bounds of the model.
NumPlanets == 2
NumPeople == 2
MaxQueries == 2

Planets == 1..NumPlanets
People == 1..NumPeople
Slots == 1..MaxQueries

\* HTTP outcomes of an upstream GET: success, not found, server failure.
Status == {200, 404, 500}

----------------------------------------------------------------------------
\* The REST endpoints.

PlanetsURL == <<"planets", 0>>
PlanetURL(id) == <<"planets", id>>
PersonURL(id) == <<"people", id>>

URLs == {PlanetsURL} \cup {PlanetURL(p) : p \in Planets} \cup {PersonURL(h) : h \in People}

\* The orderings of a finite set.
Orderings(S) == {s \in [1..Cardinality(S) -> S] : \A i, j \in DOMAIN s : s[i] = s[j] => i = j}

\* The upstream datasets: every person has one homeworld, and the residents
\* of a planet are the people living there, in some order.
Datasets ==
  {d \in [homeworld : [People -> Planets],
          residents : [Planets -> UNION {Orderings(S) : S \in SUBSET People}]] :
     \A p \in Planets : d.residents[p] \in Orderings({h \in People : d.homeworld[h] = p})}

VARIABLES
  upstream,   \* the upstream dataset, unchanged throughout
  server,     \* "serving" or "crashed"
  unhandled,  \* a promise was rejected with no handler attached
  ctx         \* the queries the server was given, one per slot

vars == <<upstream, server, unhandled, ctx>>

----------------------------------------------------------------------------
\* Values.

NoData == [name |-> <<"none", 0>>]
Nothing == [null |-> TRUE, items |-> <<>>]
Some(items) == [null |-> FALSE, items |-> items]

NoQuery == [field |-> "none", id |-> 0, rel |-> FALSE]
NoResult == [data |-> Nothing, errors |-> <<>>]

Queries ==
  {[field |-> "planet", id |-> p, rel |-> r] : p \in Planets, r \in BOOLEAN}
  \cup {[field |-> "allPlanets", id |-> 0, rel |-> r] : r \in BOOLEAN}
  \cup {[field |-> "person", id |-> h, rel |-> r] : h \in People, r \in BOOLEAN}

\* The JSON resource behind a URL.
PlanetBody(p) ==
  [name |-> PlanetURL(p),
   residents |-> [k \in DOMAIN upstream.residents[p] |-> PersonURL(upstream.residents[p][k])]]

PersonBody(h) ==
  [name |-> PersonURL(h), homeworld |-> PlanetURL(upstream.homeworld[h])]

Body(url) ==
  IF url = PlanetsURL THEN [results |-> [p \in Planets |-> PlanetBody(p)]]
  ELSE IF url[1] = "planets" THEN PlanetBody(url[2])
  ELSE PersonBody(url[2])

\* The statuses url may answer with to a query that has seen the answers
\* seen: any status, but the same as before when the query is one asked
\* again of the unchanged upstream.
Outcomes(seen, url) == IF seen[url] = 0 THEN Status ELSE {seen[url]}

\* axios.get(url) when the upstream answers with status s: the response, or
\* the rejection for a non-2xx status.
Get(url, s) ==
  IF s = 200
  THEN [ok |-> TRUE, status |-> s, data |-> Body(url)]
  ELSE [ok |-> FALSE, status |-> s, data |-> NoData]

\* {...item, __typename: type}
Tag(item, type) ==
  [f \in DOMAIN item \cup {"typename"} |-> IF f = "typename" THEN type ELSE item[f]]

----------------------------------------------------------------------------
\* Promises.

\* The promise of a fetchResource(s) call that has just issued its requests:
\* one axios request in flight per URL.  Promise.all of no promise at all is
\* fulfilled at once.
NewCall(urls, type, many, handled) ==
  [urls |-> urls, type |-> type, many |-> many, handled |-> handled,
   resp |-> [i \in DOMAIN urls |-> [done |-> FALSE, data |-> NoData]],
   inflight |-> DOMAIN urls, finished |-> {},
   state |-> IF urls = <<>> THEN "fulfilled" ELSE "pending",
   value |-> <<>>, reason |-> 0]

\* A Promise.all that keeps the responses in their order of arrival.
PromiseAllArrival(call, i, out) ==
  LET seen == [call EXCEPT !.inflight = @ \ {i}, !.finished = @ \cup {i}]
      slot == Cardinality({k \in DOMAIN call.resp : call.resp[k].done}) + 1
      got == [seen EXCEPT !.resp[slot] = [done |-> TRUE, data |-> out.data]]
  IN IF call.state # "pending" THEN seen
     ELSE IF ~out.ok THEN [seen EXCEPT !.state = "rejected", !.reason = out.status]
     ELSE IF \A k \in DOMAIN got.resp : got.resp[k].done
          THEN [got EXCEPT !.state = "fulfilled"]
          ELSE got

\* A Promise.all that is fulfilled by the first response, like Promise.race.
PromiseAllFirst(call, i, out) ==
  LET seen == [call EXCEPT !.inflight = @ \ {i}, !.finished = @ \cup {i}]
      got == [seen EXCEPT !.resp[i] = [done |-> TRUE, data |-> out.data]]
  IN IF call.state # "pending" THEN seen
     ELSE IF ~out.ok THEN [seen EXCEPT !.state = "rejected", !.reason = out.status]
     ELSE [got EXCEPT !.state = "fulfilled"]

\* A Promise.all whose reason is that of the last rejection seen.
PromiseAllLastReason(call, i, out) ==
  LET seen == [call EXCEPT !.inflight = @ \ {i}, !.finished = @ \cup {i}]
      got == [seen EXCEPT !.resp[i] = [done |-> TRUE, data |-> out.data]]
  IN IF ~out.ok THEN [seen EXCEPT !.state = "rejected", !.reason = out.status]
     ELSE IF call.state # "pending" THEN seen
     ELSE IF \A k \in DOMAIN got.resp : got.resp[k].done
          THEN [got EXCEPT !.state = "fulfilled"]
          ELSE got

\* Promise.all when the request of index i settles with out: a response is
\* kept at the index of its request, the first rejection rejects the whole,
\* and the last response fulfils it.  A settled promise never changes.
PromiseAllSettle(call, i, out) ==
  LET seen == [call EXCEPT !.inflight = @ \ {i}, !.finished = @ \cup {i}]
      got == [seen EXCEPT !.resp[i] = [done |-> TRUE, data |-> out.data]]
  IN IF call.state # "pending" THEN seen
     ELSE IF ~out.ok THEN [seen EXCEPT !.state = "rejected", !.reason = out.status]
     ELSE IF \A k \in DOMAIN got.resp : got.resp[k].done
          THEN [got EXCEPT !.state = "fulfilled"]
          ELSE got

\* The requests in flight of the calls cs.
InFlight(cs) == UNION {{<<c, i>> : i \in cs[c].inflight} : c \in DOMAIN cs}

\* fetchResources(urls, type), from the call to its first await.
fetchResources(urls, type, handled) == NewCall(urls, type, TRUE, handled)

\* A fetchResources that waits for every request and returns the resources
\* of those that succeeded.
fetchResourcesSettled(call, i, out) ==
  LET seen == [call EXCEPT !.inflight = @ \ {i}, !.finished = @ \cup {i}]
      got == IF out.ok THEN [seen EXCEPT !.resp[i] = [done |-> TRUE, data |-> out.data]]
                       ELSE seen
      kept == SelectSeq(got.resp, LAMBDA r : r.done)
  IN IF got.inflight = {}
     THEN [got EXCEPT !.state = "fulfilled",
                      !.value = [k \in DOMAIN kept |-> Tag(kept[k].data, call.type)]]
     ELSE got

\* fetchResources after its await: the data of each response, tagged.
fetchResourcesSettle(call, i, out) ==
  LET all == PromiseAllSettle(call, i, out)
  IN IF call.state = "pending" /\ all.state = "fulfilled"
     THEN [all EXCEPT !.value = [k \in DOMAIN all.resp |-> Tag(all.resp[k].data, all.type)]]
     ELSE all

\* fetchResource(url, type), from the call to its await.
fetchResource(url, type, handled) == NewCall(<<url>>, type, FALSE, handled)

\* fetchResource after its await.
fetchResourceSettle(call, i, out) ==
  LET seen == [call EXCEPT !.inflight = @ \ {i}, !.finished = @ \cup {i}]
  IN IF out.ok
     THEN [seen EXCEPT !.resp[i] = [done |-> TRUE, data |-> out.data],
                       !.state = "fulfilled",
                       !.value = <<Tag(out.data, call.type)>>]
     ELSE [seen EXCEPT !.state = "rejected", !.reason = out.status]

----------------------------------------------------------------------------
\* The root resolvers, after the await of the parent request.  The scalar
\* fields (name, diameter, climate, terrain, gender) are all copied from the
\* data in the same way; name stands for them.

\* A root.planet that catches the failure of its request.
planetResolveCaught(out) ==
  IF out.ok
  THEN [state |-> "fulfilled", reason |-> 0,
        objs |-> <<[name |-> out.data.name]>>, urls |-> <<out.data.residents>>]
  ELSE [state |-> "fulfilled", reason |-> 0, objs |-> <<NoData>>, urls |-> <<<<>>>>]

\* root.planet: the object and the URLs handed to fetchResources.
planetResolve(out) ==
  IF out.ok
  THEN [state |-> "fulfilled", reason |-> 0,
        objs |-> <<[name |-> out.data.name]>>, urls |-> <<out.data.residents>>]
  ELSE [state |-> "rejected", reason |-> out.status, objs |-> <<>>, urls |-> <<>>]

\* root.person: the object and the URL handed to fetchResource.
personResolve(out) ==
  IF out.ok
  THEN [state |-> "fulfilled", reason |-> 0,
        objs |-> <<[name |-> out.data.name]>>, urls |-> <<<<out.data.homeworld>>>>]
  ELSE [state |-> "rejected", reason |-> out.status, objs |-> <<>>, urls |-> <<>>]

\* root.allPlanets: one object and one list of URLs per planet of the list.
allPlanetsResolve(out) ==
  IF out.ok
  THEN [state |-> "fulfilled", reason |-> 0,
        objs |-> [p \in DOMAIN out.data.results |-> [name |-> out.data.results[p].name]],
        urls |-> [p \in DOMAIN out.data.results |-> out.data.results[p].residents]]
  ELSE [state |-> "rejected", reason |-> out.status, objs |-> <<>>, urls |-> <<>>]

\* A root.allPlanets that starts the call of a planet when that of the planet
\* before has ended: only the first is started on arrival of the list.
allPlanetsMapSerial(urls) ==
  [c \in DOMAIN urls |->
     IF c = 1 THEN fetchResources(urls[c], "Person", TRUE)
     ELSE [fetchResources(urls[c], "Person", TRUE) EXCEPT !.inflight = {}]]

\* root.allPlanets, data.map(async (planet) => ...): every callback runs up to
\* its await, so the calls of all planets are started in the same turn.
allPlanetsMap(urls) ==
  [c \in DOMAIN urls |-> fetchResources(urls[c], "Person", TRUE)]

\* A root.allPlanets in which every planet ends up with the residents of the
\* planet that came last.
allPlanetsGatherShared(objs, cs) ==
  [p \in DOMAIN objs |-> [name |-> objs[p].name, residents |-> Some(cs[Len(cs)].value)]]

\* root.allPlanets, the outer Promise.all once every planet is there: the
\* planets in the order of the list, each with its own residents.
allPlanetsGather(objs, cs) ==
  [p \in DOMAIN objs |-> [name |-> objs[p].name, residents |-> Some(cs[p].value)]]

----------------------------------------------------------------------------
\* The query engine behind graphqlHTTP: it awaits the root resolver, reads
\* the fields the query selects, awaits those that are promises, and turns a
\* rejection into null at the field with an entry in errors.

RelName(field) == IF field = "person" THEN "homeworld" ELSE "residents"

WithRelation(field, obj, rel) ==
  IF field = "person"
  THEN [name |-> obj.name, homeworld |-> rel]
  ELSE [name |-> obj.name, residents |-> rel]

Data(items) == [data |-> Some(items), errors |-> <<>>]

FieldError(path, reason) ==
  [data |-> Nothing, errors |-> <<[path |-> path, message |-> reason]>>]

Prune(objs, rel) ==
  IF rel THEN objs ELSE [p \in DOMAIN objs |-> [name |-> objs[p].name]]

Engine(q, objs, cs) ==
  IF q.field = "allPlanets"
  THEN IF \E c \in DOMAIN cs : cs[c].state = "rejected"
       THEN [done |-> TRUE,
             result |-> FieldError(<<q.field>>,
                          cs[CHOOSE c \in DOMAIN cs : cs[c].state = "rejected"].reason)]
       ELSE IF \A c \in DOMAIN cs : cs[c].state = "fulfilled"
       THEN [done |-> TRUE, result |-> Data(Prune(allPlanetsGather(objs, cs), q.rel))]
       ELSE [done |-> FALSE, result |-> NoResult]
  ELSE IF ~q.rel
  THEN [done |-> TRUE, result |-> Data(objs)]
  ELSE IF cs[1].state = "fulfilled"
  THEN [done |-> TRUE,
        result |-> Data(<<WithRelation(q.field, objs[1], Some(cs[1].value))>>)]
  ELSE IF cs[1].state = "rejected"
  THEN [done |-> TRUE,
        result |-> [data |-> Some(<<WithRelation(q.field, objs[1], Nothing)>>),
                    errors |-> <<[path |-> <<q.field, RelName(q.field)>>,
                                  message |-> cs[1].reason]>>]]
  ELSE [done |-> FALSE, result |-> NoResult]

----------------------------------------------------------------------------
\* The queries in progress.  A slot holds a query from its arrival on:
\*   query     the query
\*   pc        "parent": the resolver awaits its first request; "relation":
\*             the engine or the resolver awaits relation calls; "responded"
\*   resolved  the parent objects the resolver has built
\*   calls     the fetchResource(s) calls of the query
\*   result    its response
\*   issued    number of upstream requests issued for it
\*   log       the upstream responses to it, in order of arrival
\*   seen      the status each URL answered with to it and to the same query
\*             when it was asked before
\*   prev      the response to the same query when it was asked before

NoPrev == [has |-> FALSE, result |-> NoResult]

IdleCtx ==
  [query |-> NoQuery, pc |-> "idle", resolved |-> <<>>, calls |-> <<>>,
   result |-> NoResult, issued |-> 0, log |-> <<>>,
   seen |-> [u \in URLs |-> 0], prev |-> NoPrev]

\* The server has work in progress for the query of slot k: it is not
\* answered, or requests made for it are in flight.
Busy(k) == ctx[k].pc \in {"parent", "relation"} \/ InFlight(ctx[k].calls) # {}

\* The slot a query that arrives is given: the first with no work in progress.
FirstFree(k) == ~Busy(k) /\ \A j \in Slots : j < k => Busy(j)

\* The engine calls the root resolver of q, which issues the parent request.
Start(q, seen, prev) ==
  [IdleCtx EXCEPT !.query = q, !.pc = "parent", !.issued = 1, !.seen = seen, !.prev = prev]

\* The parent response out to the query x arrives from url: the resolver r
\* builds its objects and starts the relation calls cs, and the engine goes
\* on with what it was given.
Parent(x, url, out, r, cs) ==
  LET e == Engine(x.query, r.objs, cs)
      heard == [x EXCEPT !.seen[url] = out.status,
                         !.log = Append(@, [call |-> 0, idx |-> 1, status |-> out.status])]
  IN IF r.state = "rejected"
     THEN [heard EXCEPT !.pc = "responded",
                        !.result = FieldError(<<x.query.field>>, r.reason)]
     ELSE [heard EXCEPT !.resolved = r.objs,
                        !.calls = cs,
                        !.issued = @ + Cardinality(InFlight(cs)),
                        !.pc = IF e.done THEN "responded" ELSE "relation",
                        !.result = e.result]

\* The response out to request i of call c of the query x arrives: the call
\* settles or not, and the engine goes on if it was waiting for it.
Relation(x, c, i, out) ==
  LET call == IF x.calls[c].many THEN fetchResourcesSettle(x.calls[c], i, out)
                                 ELSE fetchResourceSettle(x.calls[c], i, out)
      cs == [x.calls EXCEPT ![c] = call]
      e == Engine(x.query, x.resolved, cs)
      heard == [x EXCEPT !.calls = cs,
                         !.seen[x.calls[c].urls[i]] = out.status,
                         !.log = Append(@, [call |-> c, idx |-> i, status |-> out.status])]
  IN IF x.pc = "relation" /\ e.done
     THEN [heard EXCEPT !.pc = "responded", !.result = e.result]
     ELSE heard

----------------------------------------------------------------------------
\* The steps.

Init ==
  /\ upstream \in Datasets
  /\ server = "serving"
  /\ unhandled = FALSE
  /\ ctx = [k \in Slots |-> IdleCtx]

\* A query arrives, whatever the server is doing for the queries before it.
NewQuery(k, q) ==
  /\ server = "serving"
  /\ FirstFree(k)
  /\ ctx' = [ctx EXCEPT ![k] = Start(q, IdleCtx.seen, NoPrev)]
  /\ UNCHANGED <<upstream, server, unhandled>>

\* The client asks the query of slot j, which it has been answered, once
\* more, whatever requests made for it are still in flight.
Repeat(j, k) ==
  /\ server = "serving"
  /\ ctx[j].pc = "responded"
  /\ FirstFree(k)
  /\ ctx' = [ctx EXCEPT ![k] = Start(ctx[j].query, ctx[j].seen,
                                     [has |-> TRUE, result |-> ctx[j].result])]
  /\ UNCHANGED <<upstream, server, unhandled>>

\* The client that asks one query again and again asks it first.
First(q) ==
  /\ \A k \in Slots : ctx[k].pc = "idle"
  /\ NewQuery(1, q)

planet(k) ==
  /\ server = "serving"
  /\ ctx[k].pc = "parent"
  /\ ctx[k].query.field = "planet"
  /\ \E s \in Outcomes(ctx[k].seen, PlanetURL(ctx[k].query.id)) :
     LET out == Get(PlanetURL(ctx[k].query.id), s)
         r == planetResolve(out)
         cs == [c \in DOMAIN r.urls |-> fetchResources(r.urls[c], "Person", ctx[k].query.rel)]
     IN ctx' = [ctx EXCEPT ![k] = Parent(@, PlanetURL(ctx[k].query.id), out, r, cs)]
  /\ UNCHANGED <<upstream, server, unhandled>>

allPlanets(k) ==
  /\ server = "serving"
  /\ ctx[k].pc = "parent"
  /\ ctx[k].query.field = "allPlanets"
  /\ \E s \in Outcomes(ctx[k].seen, PlanetsURL) :
     LET out == Get(PlanetsURL, s)
         r == allPlanetsResolve(out)
     IN ctx' = [ctx EXCEPT ![k] = Parent(@, PlanetsURL, out, r, allPlanetsMap(r.urls))]
  /\ UNCHANGED <<upstream, server, unhandled>>

person(k) ==
  /\ server = "serving"
  /\ ctx[k].pc = "parent"
  /\ ctx[k].query.field = "person"
  /\ \E s \in Outcomes(ctx[k].seen, PersonURL(ctx[k].query.id)) :
     LET out == Get(PersonURL(ctx[k].query.id), s)
         r == personResolve(out)
         cs == [c \in DOMAIN r.urls |-> fetchResource(r.urls[c][1], "Planet", ctx[k].query.rel)]
     IN ctx' = [ctx EXCEPT ![k] = Parent(@, PersonURL(ctx[k].query.id), out, r, cs)]
  /\ UNCHANGED <<upstream, server, unhandled>>

\* The response to request i of call c of the query of slot k arrives.  A
\* rejection nobody handles is reported by the runtime at the end of the
\* turn: a warning or the end of the process, depending on the runtime.
FetchCompletes(k, c, i) ==
  /\ server = "serving"
  /\ c \in DOMAIN ctx[k].calls
  /\ i \in ctx[k].calls[c].inflight
  /\ \E s \in Outcomes(ctx[k].seen, ctx[k].calls[c].urls[i]) :
     LET out == Get(ctx[k].calls[c].urls[i], s)
         x == Relation(ctx[k], c, i, out)
     IN /\ ctx' = [ctx EXCEPT ![k] = x]
        /\ IF /\ ctx[k].calls[c].state = "pending"
              /\ x.calls[c].state = "rejected"
              /\ ~x.calls[c].handled
           THEN unhandled' = TRUE /\ server' \in {"serving", "crashed"}
           ELSE UNCHANGED <<unhandled, server>>
  /\ UNCHANGED upstream

Step ==
  \/ \E k \in Slots : planet(k)
  \/ \E k \in Slots : allPlanets(k)
  \/ \E k \in Slots : person(k)
  \/ \E k \in Slots, c \in Planets, i \in People : FetchCompletes(k, c, i)

\* The server with its clients.
Next ==
  \/ \E k \in Slots, q \in Queries : NewQuery(k, q)
  \/ Step

Spec == Init /\ [][Next]_vars

\* The server with one client that asks a query and asks it again.
NextSame ==
  \/ \E q \in Queries : First(q)
  \/ \E j, k \in Slots : Repeat(j, k)
  \/ Step

SpecSame == Init /\ [][NextSame]_vars

----------------------------------------------------------------------------
\* What the upstream holds and what a query has heard, for the statements
\* below.

\* The residents of planet p as fetchResources must return them.
Residents(p) ==
  [k \in DOMAIN upstream.residents[p] |->
     [name |-> PersonURL(upstream.residents[p][k]),
      homeworld |-> PlanetURL(p),
      typename |-> "Person"]]

\* The responses to call c of the query x that were failures, in order of
\* arrival.
Fails(x, c) == SelectSeq(x.log, LAMBDA e : e.call = c /\ e.status # 200)

\* The responses to call c of the query x, in order of arrival.
Arrivals(x, c) == SelectSeq(x.log, LAMBDA e : e.call = c)

\* The failures the upstream has answered the query x with, since it was
\* first asked.
FailStatuses(x) == {x.seen[u] : u \in URLs} \ {0, 200}

----------------------------------------------------------------------------
\* C1: a fetchResources call that is fulfilled holds one element per URL it
\* was given, element i being the tagged resource of URL i, whatever the order
\* of arrival; given no URL it is fulfilled with the empty sequence; and the
\* residents of planet(id) are that sequence.
C1_ResultsInInputOrder ==
  \A k \in Slots :
    LET x == ctx[k]
    IN /\ \A c \in DOMAIN x.calls :
            /\ x.calls[c].urls = <<>> =>
                 x.calls[c].state = "fulfilled" /\ x.calls[c].value = <<>>
            /\ x.calls[c].many /\ x.calls[c].state = "fulfilled" =>
                 /\ Len(x.calls[c].value) = Len(x.calls[c].urls)
                 /\ \A i \in DOMAIN x.calls[c].urls :
                      /\ x.calls[c].value[i].name = x.calls[c].urls[i]
                      /\ x.calls[c].value[i].typename = "Person"
       /\ x.pc = "responded" /\ x.query.field = "planet" /\ x.query.rel
            /\ x.result.errors = <<>> =>
            x.result.data.items = <<[name |-> PlanetURL(x.query.id),
                                     residents |-> Some(Residents(x.query.id))]>>

\* C1 witness: in one allPlanets query, a call fulfilled with two residents
\* whose second response came first, and a call for a planet with no resident.
C1_Witness ==
  \E k \in Slots : \E c, d \in DOMAIN ctx[k].calls :
    /\ ctx[k].calls[c].many /\ ctx[k].calls[c].state = "fulfilled"
    /\ Len(ctx[k].calls[c].urls) >= 2
    /\ Arrivals(ctx[k], c)[1].idx = 2
    /\ ctx[k].calls[d].urls = <<>> /\ ctx[k].calls[d].state = "fulfilled"
    /\ ctx[k].pc = "responded" /\ ctx[k].result.errors = <<>>

\* C2: when a resident request of planet(id) fails, the residents field is
\* null with an error entry; it never holds a list of the residents whose
\* requests succeeded, and whatever list it holds is the full list.
C2_NoPartialResidents ==
  \A k \in Slots :
    LET x == ctx[k]
    IN x.pc = "responded" /\ x.query.field = "planet" /\ x.query.rel
         /\ ~x.result.data.null =>
         /\ Fails(x, 1) # <<>> =>
              /\ x.result.data.items[1].residents = Nothing
              /\ x.result.errors # <<>>
              /\ x.result.errors[1].path = <<"planet", "residents">>
         /\ ~x.result.data.items[1].residents.null =>
              /\ Fails(x, 1) = <<>>
              /\ Len(x.result.data.items[1].residents.items)
                   = Len(upstream.residents[x.query.id])

\* C2 witness: planet(id) has answered after one resident arrived and another
\* failed.
C2_Witness ==
  \E k \in Slots :
    /\ ctx[k].pc = "responded" /\ ctx[k].query.field = "planet" /\ ctx[k].query.rel
    /\ Len(Arrivals(ctx[k], 1)) >= 2
    /\ Arrivals(ctx[k], 1)[1].status = 200 /\ Fails(ctx[k], 1) # <<>>
    /\ ctx[k].result.data.items[1].residents = Nothing

\* C3: when the request for the planet or the person of planet(id) or
\* person(id) fails as not found, the field is answered with an error entry
\* carrying that failure, and with no object.
C3_NotFoundIsError ==
  \A k \in Slots :
    LET x == ctx[k]
    IN x.pc = "responded" /\ x.query.field \in {"planet", "person"}
         /\ x.log[1].status = 404 =>
         /\ x.result.errors # <<>>
         /\ x.result.errors[1] = [path |-> <<x.query.field>>, message |-> 404]
         /\ x.result.data = Nothing

\* C3 witness: planet(id) answered for an id that is not found.
C3_Witness ==
  \E k \in Slots :
    /\ ctx[k].pc = "responded" /\ ctx[k].query.field = "planet"
    /\ ctx[k].log[1].status = 404
    /\ ctx[k].result.errors # <<>>

\* C6: when every request succeeds, allPlanets() returns the planets of the
\* list in its order, each with its own residents in their upstream order.
C6_AllPlanetsResidents ==
  \A k \in Slots :
    LET x == ctx[k]
    IN x.pc = "responded" /\ x.query.field = "allPlanets"
         /\ (\A n \in DOMAIN x.log : x.log[n].status = 200) =>
         x.result = [data |-> Some([p \in Planets |->
                                      IF x.query.rel
                                      THEN [name |-> PlanetURL(p),
                                            residents |-> Some(Residents(p))]
                                      ELSE [name |-> PlanetURL(p)]]),
                     errors |-> <<>>]

\* C6 witness: allPlanets() with residents has answered, two planets have
\* residents, and a resident of the second planet arrived first.
C6_Witness ==
  \E k \in Slots :
    /\ ctx[k].pc = "responded" /\ ctx[k].query.field = "allPlanets" /\ ctx[k].query.rel
    /\ ctx[k].result.errors = <<>>
    /\ Cardinality({p \in Planets : upstream.residents[p] # <<>>}) >= 2
    /\ Len(ctx[k].log) >= 3 /\ ctx[k].log[2].call # 1

\* C8: a fetchResources call is rejected as soon as one of its requests has
\* failed, whatever requests are still in flight, and its reason is that of
\* the failure that arrived first; the query that awaits it is answered at
\* that moment.
C8_FirstFailureWins ==
  \A k \in Slots : \A c \in DOMAIN ctx[k].calls :
    ctx[k].calls[c].many /\ Fails(ctx[k], c) # <<>> =>
      /\ ctx[k].calls[c].state = "rejected"
      /\ ctx[k].calls[c].reason = Fails(ctx[k], c)[1].status
      /\ ctx[k].calls[c].handled => ctx[k].pc = "responded"

\* C8 witness: two requests of a call have failed differently, the one of the
\* later URL first, and the call has the reason of that one.
C8_Witness ==
  \E k \in Slots : \E c \in DOMAIN ctx[k].calls :
    /\ ctx[k].calls[c].many /\ Len(Fails(ctx[k], c)) >= 2
    /\ Fails(ctx[k], c)[1].idx > Fails(ctx[k], c)[2].idx
    /\ Fails(ctx[k], c)[1].status # Fails(ctx[k], c)[2].status
    /\ ctx[k].calls[c].reason = Fails(ctx[k], c)[1].status
    /\ ctx[k].pc = "responded"

\* C10: in allPlanets(), from the arrival of the list on, every resident
\* request of every planet has been issued, and the resolver returns its
\* planets only when none is in flight any more.
C10_FireAllThenWait ==
  \A k \in Slots :
    LET x == ctx[k]
    IN x.query.field = "allPlanets" /\ x.pc \in {"relation", "responded"}
         /\ x.log[1].status = 200 =>
         /\ DOMAIN x.calls = Planets
         /\ \A c \in DOMAIN x.calls :
              /\ x.calls[c].urls = PlanetBody(c).residents
              /\ x.calls[c].inflight \cup x.calls[c].finished = DOMAIN x.calls[c].urls
         /\ x.pc = "responded" /\ x.result.errors = <<>> => InFlight(x.calls) = {}

\* C10 witness: the list has arrived, the residents of two planets or more
\* are being fetched, and every one of these requests is in flight.
C10_Witness ==
  \E k \in Slots :
    /\ ctx[k].query.field = "allPlanets" /\ ctx[k].pc = "relation"
    /\ Cardinality({c \in DOMAIN ctx[k].calls : ctx[k].calls[c].urls # <<>>}) >= 2
    /\ \A c \in DOMAIN ctx[k].calls :
         ctx[k].calls[c].inflight = DOMAIN ctx[k].calls[c].urls
    /\ Cardinality(InFlight(ctx[k].calls)) = NumPeople

\* C7 as stated: a query asked again of an unchanged upstream is answered as
\* it was before.
C7_SameQuerySameResult ==
  \A k \in Slots :
    ctx[k].pc = "responded" /\ ctx[k].prev.has => ctx[k].result = ctx[k].prev.result

\* C7 as amended: a query asked again of an unchanged upstream is answered
\* with the same data and with errors at the same paths, and with the same
\* answer altogether unless its requests failed in two different ways.
C7_SameResultUnlessFailuresDiffer ==
  \A k \in Slots :
    LET x == ctx[k]
    IN x.pc = "responded" /\ x.prev.has =>
         /\ x.result.data = x.prev.result.data
         /\ Len(x.result.errors) = Len(x.prev.result.errors)
         /\ \A n \in DOMAIN x.result.errors :
              x.result.errors[n].path = x.prev.result.errors[n].path
         /\ Cardinality(FailStatuses(x)) <= 1 => x.result = x.prev.result

\* C7 witness: allPlanets() with residents is answered a second time, two
\* resident requests arrived and the one of the second planet came first.
C7_Witness ==
  \E k \in Slots :
    /\ ctx[k].pc = "responded" /\ ctx[k].prev.has
    /\ ctx[k].query.field = "allPlanets" /\ ctx[k].query.rel
    /\ Len(ctx[k].log) >= 3 /\ ctx[k].log[2].call # 1
    /\ ctx[k].result.errors = <<>>
    /\ ctx[k].result = ctx[k].prev.result

\* C4 as stated: every rejection is handled and the server keeps serving, so
\* that no query is left without an answer.
C4_NoErrorIsFatal ==
  server = "serving" /\ ~unhandled

\* C5 as stated: once a request made for a root field has failed, the field
\* is answered with an error entry and no object.
C5_FailureAbortsRootField ==
  \A k \in Slots :
    ctx[k].pc = "responded" /\ (\E n \in DOMAIN ctx[k].log : ctx[k].log[n].status # 200) =>
      ctx[k].result.data = Nothing /\ ctx[k].result.errors # <<>>

\* C9 as stated: planet(id) and person(id) without their relation field issue
\* one upstream request, that of the parent.
C9_RelationsFetchedOnDemand ==
  \A k \in Slots :
    ctx[k].query.field \in {"planet", "person"} /\ ~ctx[k].query.rel => ctx[k].issued <= 1

====
